---------------------------- MODULE Spec2Model ----------------------------
(***************************************************************************)
(* Point tracker (app_gsheets.py): a Streamlit script over three Google    *)
(* Sheets worksheets, ListActivity (catalog), LogActivity (the log) and    *)
(* RecapPoint (the per-date recap).                                        *)
(*                                                                         *)
(* A worksheet is a sequence of rows, the header row first.  A cell that   *)
(* the code parses (No, Date, Point, Rekap Point) is the sequence of its   *)
(* characters, so that str(), int(), str.isdigit(), pd.to_datetime() and   *)
(* pd.to_numeric() are modelled by what they do to the text.  Activity and *)
(* Approval cells are never parsed and are plain strings.                  *)
(***************************************************************************)
EXTENDS Integers, Sequences, FiniteSets, TLC

VARIABLES
    logTable,     \* worksheet LogActivity: <<header, row, ...>>
    recapTable,   \* worksheet RecapPoint: <<>> when cleared, else <<header, row, ...>>
    listTable,    \* worksheet ListActivity: <<header, row, ...>>
    conn,         \* the cached result of connect_to_gsheets: "unset", "ok", "none"
    pc,           \* per session: where the script run is
    clicked,      \* per session: whether this run was triggered by "Submit Log"
    sel,          \* per session: the sidebar widgets (date, activity, approval)
    df_list,      \* per session: the catalog frame of this run
    df_log,       \* per session: the log frame of this run
    new_id,       \* per session: add_log_entry's local new_id
    readLen,      \* history, per session: rows of the worksheet when column 1 was read
    ui,           \* per session: what the run showed: an st.error, an uncaught exception
    faults,       \* number of remote failures injected so far
    nInit,        \* history: number of data rows the log held initially
    submitted,    \* history: one record per append_row call, in call order
    lastCall      \* history: the last function applied and what it was given

vars == <<logTable, recapTable, listTable, conn, pc, clicked, sel, df_list,
          df_log, new_id, readLen, ui, faults, nInit, submitted, lastCall>>

-----------------------------------------------------------------------------
(* Bounds of the model *)

\* most data rows the log worksheet holds initially
InitRows == 2
\* most Submit Log clicks in one behaviour of the application
MaxSubmits == 2
\* most remote failures in one behaviour of the application
MaxFaults == 1
\* most rows appended by direct calls of add_log_entry
FnAppends == 1

-----------------------------------------------------------------------------
(* Text: characters, str(int), int(str), str.isdigit *)

DigitChars == <<"0", "1", "2", "3", "4", "5", "6", "7", "8", "9">>

IsDigitChar(c) == \E i \in 1..10 : DigitChars[i] = c

DigitVal(c) == (CHOOSE i \in 1..10 : DigitChars[i] = c) - 1

\* str.isdigit(): non-empty and every character a digit
isdigit(s) == Len(s) > 0 /\ \A i \in 1..Len(s) : IsDigitChar(s[i])

\* int(s) for a string of digits
RECURSIVE int(_)
int(s) ==
    IF s = <<>> THEN 0
    ELSE int(SubSeq(s, 1, Len(s) - 1)) * 10 + DigitVal(s[Len(s)])

\* str(n) for n >= 0
RECURSIVE NatToStr(_)
NatToStr(n) ==
    IF n < 10 THEN <<DigitChars[n + 1]>>
    ELSE NatToStr(n \div 10) \o <<DigitChars[(n % 10) + 1]>>

\* str(n) of an integer, which is how a number written to a cell reads back
str(n) == IF n < 0 THEN <<"-">> \o NatToStr(0 - n) ELSE NatToStr(n)

\* zero-padded decimal of width w
RECURSIVE Pad(_, _)
Pad(s, w) == IF Len(s) >= w THEN s ELSE Pad(<<"0">> \o s, w)

-----------------------------------------------------------------------------
(* Dates: datetime.date, str(date) and pd.to_datetime(...).dt.date *)

\* variant of DateToStr: the date written day first, DD-MM-YYYY
DateToStr_DayFirst(d) ==
    Pad(NatToStr(d.d), 2) \o <<"-">> \o Pad(NatToStr(d.m), 2) \o <<"-">>
        \o Pad(NatToStr(d.y), 4)

\* str(date_val): ISO format YYYY-MM-DD
DateToStr(d) ==
    Pad(NatToStr(d.y), 4) \o <<"-">> \o Pad(NatToStr(d.m), 2) \o <<"-">>
        \o Pad(NatToStr(d.d), 2)

\* whether pd.to_datetime parses the cell: the Date cells of the model hold an
\* ISO text, which parses, or a word, on which pd.to_datetime raises
DateParses(s) ==
    /\ Len(s) = 10
    /\ s[5] = "-" /\ s[8] = "-"
    /\ isdigit(SubSeq(s, 1, 4)) /\ isdigit(SubSeq(s, 6, 7)) /\ isdigit(SubSeq(s, 9, 10))
    /\ int(SubSeq(s, 6, 7)) \in 1..12
    /\ int(SubSeq(s, 9, 10)) \in 1..31

\* pd.to_datetime(cell).date()
ParseDate(s) ==
    [y |-> int(SubSeq(s, 1, 4)), m |-> int(SubSeq(s, 6, 7)), d |-> int(SubSeq(s, 9, 10))]

\* the order of datetime.date
DateLess(a, b) ==
    \/ a.y < b.y
    \/ a.y = b.y /\ a.m < b.m
    \/ a.y = b.y /\ a.m = b.m /\ a.d < b.d

-----------------------------------------------------------------------------
(* Numbers: pd.to_numeric(errors='coerce'); a missing value (NaN) is <<>>,  *)
(* a number n is <<n>>                                                     *)

to_numeric(s) ==
    IF isdigit(s) THEN <<int(s)>>
    ELSE IF Len(s) > 1 /\ s[1] = "-" /\ isdigit(Tail(s)) THEN <<0 - int(Tail(s))>>
    ELSE <<>>

\* Series.fillna(0)
fillna0(v) == IF v = <<>> THEN 0 ELSE v[1]

-----------------------------------------------------------------------------
(* Worksheets (gspread) *)

LogHeader == << <<"N", "o">>, <<"D", "a", "t", "e">>, "Activity",
                <<"P", "o", "i", "n", "t">>, "Approval" >>

RecapHeader == << <<"N", "o">>, <<"D", "a", "t", "e">>,
                  <<"R", "e", "k", "a", "p", " ", "P", "o", "i", "n", "t">> >>

ListHeader == << "Activity", <<"P", "o", "i", "n", "t", "s">> >>

\* ws.col_values(c): the texts of column c, the header's first
col_values(ws, c) == [i \in 1..Len(ws) |-> ws[i][c]]

\* ws.get_all_records(): the rows under the header row
get_all_records(ws) == IF Len(ws) <= 1 THEN <<>> ELSE Tail(ws)

\* variant of append_row: the row is inserted right under the header
append_row_Top(ws, row) == <<ws[1], row>> \o Tail(ws)

\* ws.append_row(row): the row goes under the last row of the table
append_row(ws, row) == Append(ws, row)

\* ws.clear()
clear(ws) == <<>>

\* ws.update(data): writes the rows of data from the top; rows below stay
update(ws, data) ==
    [i \in 1..(IF Len(ws) > Len(data) THEN Len(ws) ELSE Len(data)) |->
        IF i <= Len(data) THEN data[i] ELSE ws[i]]

\* col_values[1:]
Slice1(s) == IF s = <<>> THEN <<>> ELSE Tail(s)

-----------------------------------------------------------------------------
(* load_data *)

\* df_list: one record per catalog row
LoadList(ws) ==
    LET recs == get_all_records(ws)
    IN  [i \in 1..Len(recs) |-> [Activity |-> recs[i][1], Points |-> int(recs[i][2])]]

\* df_log after the type conversions of lines 43-47
LoadLog(ws) ==
    LET recs == get_all_records(ws)
    IN  [i \in 1..Len(recs) |->
            [No       |-> to_numeric(recs[i][1]),
             Date     |-> ParseDate(recs[i][2]),
             Activity |-> recs[i][3],
             Point    |-> fillna0(to_numeric(recs[i][4])),
             Approval |-> recs[i][5]]]

\* variant of LoadRaises: pd.to_numeric without errors='coerce' raises too
LoadRaises_Strict(ws) ==
    LET recs == get_all_records(ws)
    IN  \E i \in 1..Len(recs) :
            ~DateParses(recs[i][2]) \/ to_numeric(recs[i][4]) = <<>>

\* whether the conversions raise: pd.to_datetime on a text it cannot parse
LoadRaises(ws) ==
    LET recs == get_all_records(ws)
    IN  \E i \in 1..Len(recs) : ~DateParses(recs[i][2])

\* load_data(sheet): (df_list, df_log), or two empty frames when anything raised
load_data(listWs, logWs) ==
    IF LoadRaises(logWs)
    THEN [ok |-> FALSE, df_list |-> <<>>, df_log |-> <<>>]
    ELSE [ok |-> TRUE, df_list |-> LoadList(listWs), df_log |-> LoadLog(logWs)]

-----------------------------------------------------------------------------
(* add_log_entry *)

SeqMax(s) == CHOOSE x \in {s[i] : i \in 1..Len(s)} : \A j \in 1..Len(s) : s[j] <= x

\* variant of NewId: the number of rows under the header, plus one
NewId_RowCount(colv) == Len(Slice1(colv)) + 1

\* lines 56-58: new_id from the texts of column 1
NewId(colv) ==
    LET kept == SelectSeq(Slice1(colv), isdigit)
        ids  == [i \in 1..Len(kept) |-> int(kept[i])]
    IN  IF ids # <<>> THEN SeqMax(ids) + 1 ELSE 1

\* line 60: the row as the worksheet shows it
LogRow(id, date_val, activity, point, approval) ==
    <<str(id), DateToStr(date_val), activity, str(point), approval>>

\* variant of AppendEntry: the id is computed from the worksheet at append time
AppendEntry_Atomic(ws, id, date_val, activity, point, approval) ==
    append_row(ws, LogRow(NewId(col_values(ws, 1)), date_val, activity, point, approval))

\* line 61, given the new_id computed from the column read before
AppendEntry(ws, id, date_val, activity, point, approval) ==
    append_row(ws, LogRow(id, date_val, activity, point, approval))

-----------------------------------------------------------------------------
(* update_recap *)

\* variant of AddToGroups: a later entry of a date replaces the sum so far
RECURSIVE AddToGroups_Last(_, _, _)
AddToGroups_Last(g, d, p) ==
    IF g = <<>> THEN <<[Date |-> d, Point |-> p]>>
    ELSE IF g[1].Date = d THEN <<[Date |-> d, Point |-> p]>> \o Tail(g)
    ELSE IF DateLess(d, g[1].Date) THEN <<[Date |-> d, Point |-> p]>> \o g
    ELSE <<g[1]>> \o AddToGroups_Last(Tail(g), d, p)

\* variant of AddToGroups: groups stay in order of first appearance (sort=False)
RECURSIVE AddToGroups_Unsorted(_, _, _)
AddToGroups_Unsorted(g, d, p) ==
    IF g = <<>> THEN <<[Date |-> d, Point |-> p]>>
    ELSE IF g[1].Date = d THEN <<[Date |-> d, Point |-> g[1].Point + p]>> \o Tail(g)
    ELSE <<g[1]>> \o AddToGroups_Unsorted(Tail(g), d, p)

\* one row joins the groups, which are kept in date order
RECURSIVE AddToGroups(_, _, _)
AddToGroups(g, d, p) ==
    IF g = <<>> THEN <<[Date |-> d, Point |-> p]>>
    ELSE IF g[1].Date = d THEN <<[Date |-> d, Point |-> g[1].Point + p]>> \o Tail(g)
    ELSE IF DateLess(d, g[1].Date) THEN <<[Date |-> d, Point |-> p]>> \o g
    ELSE <<g[1]>> \o AddToGroups(Tail(g), d, p)

\* df_log.groupby('Date')['Point'].sum().reset_index()
RECURSIVE groupby_sum(_)
groupby_sum(df) ==
    IF df = <<>> THEN <<>>
    ELSE AddToGroups(groupby_sum(SubSeq(df, 1, Len(df) - 1)),
                     df[Len(df)].Date, df[Len(df)].Point)

\* lines 70-77: header, then No = 1..N, the date as text, the sum
data_to_upload(df) ==
    LET g == groupby_sum(df)
    IN  <<RecapHeader>> \o
        [i \in 1..Len(g) |-> <<str(i), DateToStr(g[i].Date), str(g[i].Point)>>]

\* variant of update_recap: no early return on an empty log
update_recap_Always(ws, df) == update(clear(ws), data_to_upload(df))

\* update_recap(sheet, df_log): the RecapPoint worksheet afterwards
update_recap(ws, df) ==
    IF df = <<>> THEN ws
    ELSE update(clear(ws), data_to_upload(df))

-----------------------------------------------------------------------------
(* What the environment supplies: widget choices and worksheet contents *)

Sessions1 == {1}

\* st.sidebar.date_input: the dates a user picks
SelDates == {[y |-> 2023, m |-> 12, d |-> 31], [y |-> 2024, m |-> 1, d |-> 1],
             [y |-> 2024, m |-> 1, d |-> 2]}

\* line 120: the options of the Approval selectbox
Approvals == {"Good", "Average", "Not Good"}

\* the ListActivity worksheet: the catalog, or no catalog rows at all
Catalog == <<ListHeader, <<"Reading", <<"5">>>>, <<"Exercise", <<"1", "0">>>> >>

NoCatalog == <<ListHeader>>

\* texts found in column No: ids, and texts that are no ids
IdCells == {<<"9">>, <<"x">>, <<>>, <<"-", "3">>}

\* texts found in column Point: numbers, a word, a blank
PointCells == {<<"a", "b", "c">>, <<>>, <<"-", "2">>}

\* texts found in column Date
TextDec31 == <<"2", "0", "2", "3", "-", "1", "2", "-", "3", "1">>

TextJan1 == <<"2", "0", "2", "4", "-", "0", "1", "-", "0", "1">>

TextJan2 == <<"2", "0", "2", "4", "-", "0", "1", "-", "0", "2">>

TextSoon == <<"s", "o", "o", "n">>

\* rows a LogActivity worksheet may hold before this program runs
StoredRows ==
    {<<id, TextJan1, "Reading", <<"5">>, "Good">> : id \in IdCells}
    \cup {<<<<"1">>, TextJan2, "Exercise", p, "Average">> : p \in PointCells}
    \cup {<<<<"1">>, TextSoon, "Reading", <<"5">>, "Good">>}

RECURSIVE SeqsUpTo(_, _)
SeqsUpTo(S, n) ==
    IF n = 0 THEN {<<>>}
    ELSE LET shorter == SeqsUpTo(S, n - 1)
         IN  shorter \cup {Append(q, x) : q \in {r \in shorter : Len(r) = n - 1}, x \in S}

\* the LogActivity worksheets a behaviour may start from
InitLogs == {<<LogHeader>> \o rows : rows \in SeqsUpTo(StoredRows, InitRows)}

\* the RecapPoint worksheets a behaviour may start from: never written, or stale
InitRecaps ==
    {<<>>,
     <<RecapHeader, <<<<"1">>, TextDec31, <<"7">>>>, <<<<"2">>, TextJan2, <<"3">>>> >>}

NoSel == [date |-> [y |-> 2024, m |-> 1, d |-> 1], activity |-> "", approval |-> "Good"]

NoUi == [error |-> FALSE, uncaught |-> FALSE]

NoCall == [op |-> "none", recapBefore |-> <<>>]

-----------------------------------------------------------------------------
(* The functions applied directly, in any order, to any worksheet contents *)

InitFn ==
    /\ logTable \in InitLogs
    /\ recapTable \in InitRecaps
    /\ listTable = Catalog
    /\ conn = "ok"
    /\ pc = [s \in Sessions1 |-> "fn"]
    /\ clicked = [s \in Sessions1 |-> FALSE]
    /\ sel = [s \in Sessions1 |-> NoSel]
    /\ df_list = [s \in Sessions1 |-> <<>>]
    /\ df_log = [s \in Sessions1 |-> <<>>]
    /\ new_id = [s \in Sessions1 |-> 0]
    /\ readLen = [s \in Sessions1 |-> 0]
    /\ ui = [s \in Sessions1 |-> NoUi]
    /\ faults = 0
    /\ nInit = Len(logTable) - 1
    /\ submitted = <<>>
    /\ lastCall = NoCall

\* the arguments add_log_entry is called with
FnInputs ==
    {[date |-> [y |-> 2024, m |-> 1, d |-> 1], activity |-> "Reading", point |-> 5,
      approval |-> "Good"],
     [date |-> [y |-> 2024, m |-> 1, d |-> 2], activity |-> "Exercise", point |-> 10,
      approval |-> "Average"],
     [date |-> [y |-> 2023, m |-> 12, d |-> 31], activity |-> "Reading", point |-> 5,
      approval |-> "Not Good"]}

\* df_list, df_log = load_data(sheet)
FnLoad ==
    /\ pc[1] = "fn"
    /\ LET r == load_data(listTable, logTable)
       IN  /\ df_list' = [df_list EXCEPT ![1] = r.df_list]
           /\ df_log' = [df_log EXCEPT ![1] = r.df_log]
           /\ ui' = [ui EXCEPT ![1].error = ~r.ok]
    /\ lastCall' = [op |-> "load", recapBefore |-> <<>>]
    /\ UNCHANGED <<logTable, recapTable, listTable, conn, pc, clicked, sel, new_id, readLen,
                   faults, nInit, submitted>>

\* add_log_entry(sheet, date_val, activity, point, approval)
FnAppend ==
    /\ pc[1] = "fn"
    /\ Len(submitted) < FnAppends
    /\ \E in \in FnInputs :
        LET id == NewId(col_values(logTable, 1))
        IN  /\ logTable' = AppendEntry(logTable, id, in.date, in.activity, in.point,
                                       in.approval)
            /\ new_id' = [new_id EXCEPT ![1] = id]
            /\ readLen' = [readLen EXCEPT ![1] = Len(logTable)]
            /\ submitted' = Append(submitted,
                   [by |-> 1, readLen |-> Len(logTable), date |-> in.date,
                    activity |-> in.activity, point |-> in.point,
                    approval |-> in.approval])
    /\ lastCall' = [op |-> "append", recapBefore |-> <<>>]
    /\ UNCHANGED <<recapTable, listTable, conn, pc, clicked, sel, df_list, df_log, ui,
                   faults, nInit>>

\* update_recap(sheet, df_log)
FnRecap ==
    /\ pc[1] = "fn"
    /\ recapTable' = update_recap(recapTable, df_log[1])
    /\ lastCall' = [op |-> "recap", recapBefore |-> recapTable]
    /\ UNCHANGED <<logTable, listTable, conn, pc, clicked, sel, df_list, df_log, new_id, readLen,
                   ui, faults, nInit, submitted>>

NextFn == FnLoad \/ FnAppend \/ FnRecap

SpecFn == InitFn /\ [][NextFn]_vars

-----------------------------------------------------------------------------
(* The application: one script run per user interaction, per session.      *)
(* A run is a sequence of steps, one per remote call; a remote call may    *)
(* fail (at most MaxFaults times in a behaviour).                          *)

Sessions2 == {1, 2}

\* the placeholder id of the locally added row
PlaceholderNo == 999

\* what a user picks in the sidebar before clicking Submit Log: every date,
\* activity and approval occurs, not every combination of them
UserPicks ==
    {p \in [date : SelDates, activity : {"Reading", "Exercise"}, approval : Approvals] :
        \/ p.date.d = 1 /\ p.approval = "Good"
        \/ p.date.d = 2 /\ p.approval = "Average" /\ p.activity = "Exercise"
        \/ p.date.d = 31 /\ p.approval = "Not Good" /\ p.activity = "Reading"}

\* a log as earlier use of the application and of the spreadsheet left it
SeedRows ==
    << <<<<"1">>, TextJan1, "Reading", <<"5">>, "Good">>,
       <<<<"x">>, TextJan2, "Exercise", <<"a", "b", "c">>, "Average">>,
       <<<<"3">>, TextJan1, "Exercise", <<"1", "0">>, "Not Good">>,
       <<<<"4">>, TextDec31, "Reading", <<"5">>, "Good">> >>

SeedLogs ==
    {<<LogHeader>> \o SubSeq(SeedRows, 1, n) :
        n \in 0..(IF InitRows < Len(SeedRows) THEN InitRows ELSE Len(SeedRows))}
    \cup {<<LogHeader, <<<<"1">>, TextSoon, "Reading", <<"5">>, "Good">>>>}

InitApp(S, logs, recaps, lists) ==
    /\ logTable \in logs
    /\ recapTable \in recaps
    /\ listTable \in lists
    /\ conn = "unset"
    /\ pc = [s \in S |-> "idle"]
    /\ clicked = [s \in S |-> FALSE]
    /\ sel = [s \in S |-> NoSel]
    /\ df_list = [s \in S |-> <<>>]
    /\ df_log = [s \in S |-> <<>>]
    /\ new_id = [s \in S |-> 0]
    /\ readLen = [s \in S |-> 0]
    /\ ui = [s \in S |-> NoUi]
    /\ faults = 0
    /\ nInit = Len(logTable) - 1
    /\ submitted = <<>>
    /\ lastCall = NoCall

Init == InitApp(Sessions1, SeedLogs, InitRecaps, {Catalog, NoCatalog})

\* two sessions over a log that holds one entry
InitConc == InitApp(Sessions2, {<<LogHeader>> \o SubSeq(SeedRows, 1, 1)}, {<<>>}, {Catalog})

\* a remote call may fail
MayFail == faults < MaxFaults

\* an exception nothing catches ends the script run: its local frames are gone
Uncaught(s) ==
    /\ faults' = faults + 1
    /\ ui' = [ui EXCEPT ![s].uncaught = TRUE]
    /\ pc' = [pc EXCEPT ![s] = "idle"]
    /\ df_log' = [df_log EXCEPT ![s] = <<>>]
    /\ new_id' = [new_id EXCEPT ![s] = 0]
    /\ readLen' = [readLen EXCEPT ![s] = 0]

\* the picks of the users of a behaviour: fewer when two sessions run
PicksOf(S) ==
    IF Cardinality(S) = 1 THEN UserPicks
    ELSE {p \in UserPicks : p.approval = "Good"}

\* line 119: the options of the Activity selectbox
ActivityOptions(df) == {df[i].Activity : i \in 1..Len(df)}

\* line 118: dict(zip(Activity, Points)): the last row of a name gives its points
activity_map(df, a) ==
    df[CHOOSE i \in 1..Len(df) :
          df[i].Activity = a /\ \A j \in (i + 1)..Len(df) : df[j].Activity # a].Points

\* submissions clicked and not yet appended
Pending ==
    {s \in DOMAIN pc : clicked[s] /\ pc[s] \in {"start", "load", "submit_read", "submit_append"}}

\* the user opens the page or touches a widget: the script runs
UserRerun(s) ==
    /\ s \in DOMAIN pc
    /\ pc[s] = "idle"
    /\ pc' = [pc EXCEPT ![s] = "start"]
    /\ clicked' = [clicked EXCEPT ![s] = FALSE]
    /\ UNCHANGED <<logTable, recapTable, listTable, conn, sel, df_list, df_log, new_id, readLen, ui,
                   faults, nInit, submitted, lastCall>>

\* the user clicks Submit Log, which the last run showed: the script runs
UserSubmit(s) ==
    /\ s \in DOMAIN pc
    /\ pc[s] = "idle"
    /\ df_list[s] # <<>>
    /\ Len(submitted) + Cardinality(Pending) < MaxSubmits
    /\ \E pick \in PicksOf(DOMAIN pc) :
        /\ pick.activity \in ActivityOptions(df_list[s])
        /\ sel' = [sel EXCEPT ![s] = pick]
    /\ pc' = [pc EXCEPT ![s] = "start"]
    /\ clicked' = [clicked EXCEPT ![s] = TRUE]
    /\ UNCHANGED <<logTable, recapTable, listTable, conn, df_list, df_log, new_id, readLen, ui,
                   faults, nInit, submitted, lastCall>>

\* line 84: sheet = connect_to_gsheets(), cached for the process
Connect(s) ==
    /\ s \in DOMAIN pc
    /\ pc[s] = "start"
    /\ df_list' = [df_list EXCEPT ![s] = <<>>]
    /\ df_log' = [df_log EXCEPT ![s] = <<>>]
    /\ \/ /\ conn = "ok" \/ conn = "unset"
          /\ conn' = "ok"
          /\ ui' = [ui EXCEPT ![s] = NoUi]
          /\ pc' = [pc EXCEPT ![s] = "load"]
          /\ UNCHANGED faults
       \/ /\ conn = "unset" /\ MayFail
          /\ conn' = "none"
          /\ faults' = faults + 1
          /\ ui' = [ui EXCEPT ![s] = [NoUi EXCEPT !.error = TRUE]]
          /\ pc' = [pc EXCEPT ![s] = "idle"]
       \/ /\ conn = "none"
          /\ ui' = [ui EXCEPT ![s] = [NoUi EXCEPT !.error = TRUE]]
          /\ pc' = [pc EXCEPT ![s] = "idle"]
          /\ UNCHANGED <<conn, faults>>
    /\ UNCHANGED <<logTable, recapTable, listTable, clicked, sel, new_id, readLen, nInit, submitted,
                   lastCall>>

\* where the run goes after load_data: lines 117, 122, 136
AfterLoad(s, dfl) ==
    IF dfl = <<>> THEN "display"
    ELSE IF clicked[s] THEN "submit_read" ELSE "display"

\* line 87: df_list, df_log = load_data(sheet), then the page down to the button
Load(s) ==
    /\ s \in DOMAIN pc
    /\ pc[s] = "load"
    /\ \/ /\ LET r == load_data(listTable, logTable)
             IN  /\ df_list' = [df_list EXCEPT ![s] = r.df_list]
                 /\ df_log' = [df_log EXCEPT ![s] = r.df_log]
                 /\ ui' = [ui EXCEPT ![s].error = ~r.ok]
                 /\ pc' = [pc EXCEPT ![s] = AfterLoad(s, r.df_list)]
          /\ UNCHANGED faults
       \/ /\ MayFail
          /\ faults' = faults + 1
          /\ df_list' = [df_list EXCEPT ![s] = <<>>]
          /\ df_log' = [df_log EXCEPT ![s] = <<>>]
          /\ ui' = [ui EXCEPT ![s].error = TRUE]
          /\ pc' = [pc EXCEPT ![s] = "display"]
    /\ UNCHANGED <<logTable, recapTable, listTable, conn, clicked, sel, new_id, readLen, nInit,
                   submitted, lastCall>>

\* lines 55-58: add_log_entry reads column 1 and computes new_id
SubmitRead(s) ==
    /\ s \in DOMAIN pc
    /\ pc[s] = "submit_read"
    /\ \/ /\ new_id' = [new_id EXCEPT ![s] = NewId(col_values(logTable, 1))]
          /\ readLen' = [readLen EXCEPT ![s] = Len(logTable)]
          /\ pc' = [pc EXCEPT ![s] = "submit_append"]
          /\ UNCHANGED <<ui, faults, df_log>>
       \/ /\ MayFail
          /\ Uncaught(s)
    /\ UNCHANGED <<logTable, recapTable, listTable, conn, clicked, sel, df_list, nInit,
                   submitted, lastCall>>

\* variant of new_row: the row added to the frame carries no points
new_row_NoPoint(s, points) ==
    [No |-> <<PlaceholderNo>>, Date |-> sel[s].date, Activity |-> sel[s].activity,
     Point |-> 0, Approval |-> sel[s].approval]

\* lines 129-130: the row added to the frame in memory
new_row(s, points) ==
    [No |-> <<PlaceholderNo>>, Date |-> sel[s].date, Activity |-> sel[s].activity,
     Point |-> points, Approval |-> sel[s].approval]

\* lines 60-62 and 129-130: the row is appended to the worksheet, then to df_log
SubmitAppend(s) ==
    /\ s \in DOMAIN pc
    /\ pc[s] = "submit_append"
    /\ \/ LET points == activity_map(df_list[s], sel[s].activity)
          IN  /\ logTable' = AppendEntry(logTable, new_id[s], sel[s].date,
                                         sel[s].activity, points, sel[s].approval)
              /\ df_log' = [df_log EXCEPT ![s] = Append(df_log[s], new_row(s, points))]
              /\ submitted' = Append(submitted,
                     [by |-> s, readLen |-> readLen[s],
                      date |-> sel[s].date, activity |-> sel[s].activity,
                      point |-> points, approval |-> sel[s].approval])
              /\ pc' = [pc EXCEPT ![s] = "recap_clear"]
              /\ UNCHANGED <<ui, faults, new_id, readLen>>
       \/ /\ MayFail
          /\ Uncaught(s)
          /\ UNCHANGED <<logTable, submitted>>
    /\ UNCHANGED <<recapTable, listTable, conn, clicked, sel, df_list, nInit, lastCall>>

\* lines 65-76: update_recap up to ws_recap.clear()
RecapClear(s) ==
    /\ s \in DOMAIN pc
    /\ pc[s] = "recap_clear"
    /\ \/ /\ recapTable' = IF df_log[s] = <<>> THEN recapTable ELSE clear(recapTable)
          /\ pc' = [pc EXCEPT ![s] = IF df_log[s] = <<>> THEN "saved" ELSE "recap_write"]
          /\ UNCHANGED <<ui, faults, df_log, new_id, readLen>>
       \/ /\ MayFail
          /\ Uncaught(s)
          /\ UNCHANGED recapTable
    /\ UNCHANGED <<logTable, listTable, conn, clicked, sel, df_list, nInit, submitted,
                   lastCall>>

\* lines 77-78: ws_recap.update(data_to_upload)
RecapWrite(s) ==
    /\ s \in DOMAIN pc
    /\ pc[s] = "recap_write"
    /\ \/ /\ recapTable' = update(recapTable, data_to_upload(df_log[s]))
          /\ pc' = [pc EXCEPT ![s] = "saved"]
          /\ UNCHANGED <<ui, faults, df_log, new_id, readLen>>
       \/ /\ MayFail
          /\ Uncaught(s)
          /\ UNCHANGED recapTable
    /\ UNCHANGED <<logTable, listTable, conn, clicked, sel, df_list, nInit, submitted,
                   lastCall>>

\* lines 134-135: st.success, st.rerun(): the script starts over
Rerun(s) ==
    /\ s \in DOMAIN pc
    /\ pc[s] = "saved"
    /\ pc' = [pc EXCEPT ![s] = "start"]
    /\ clicked' = [clicked EXCEPT ![s] = FALSE]
    /\ UNCHANGED <<logTable, recapTable, listTable, conn, sel, df_list, df_log, new_id, readLen, ui,
                   faults, nInit, submitted, lastCall>>

\* lines 140-163: the history table, then the recap worksheet is read for the
\* chart; the run ends and its local frames are gone
Display(s) ==
    /\ s \in DOMAIN pc
    /\ pc[s] = "display"
    /\ \/ /\ pc' = [pc EXCEPT ![s] = "idle"]
          /\ df_log' = [df_log EXCEPT ![s] = <<>>]
          /\ new_id' = [new_id EXCEPT ![s] = 0]
          /\ readLen' = [readLen EXCEPT ![s] = 0]
          /\ UNCHANGED <<ui, faults>>
       \/ /\ MayFail
          /\ Uncaught(s)
    /\ UNCHANGED <<logTable, recapTable, listTable, conn, clicked, sel, df_list, nInit,
                   submitted, lastCall>>

Next ==
    \/ \E s \in Sessions2 : UserRerun(s)
    \/ \E s \in Sessions2 : UserSubmit(s)
    \/ \E s \in Sessions2 : Connect(s)
    \/ \E s \in Sessions2 : Load(s)
    \/ \E s \in Sessions2 : SubmitRead(s)
    \/ \E s \in Sessions2 : SubmitAppend(s)
    \/ \E s \in Sessions2 : RecapClear(s)
    \/ \E s \in Sessions2 : RecapWrite(s)
    \/ \E s \in Sessions2 : Rerun(s)
    \/ \E s \in Sessions2 : Display(s)

Spec == Init /\ [][Next]_vars

SpecConc == InitConc /\ [][Next]_vars

-----------------------------------------------------------------------------
(* Vocabulary of the properties *)

\* the decimal text of each integer the worksheets of the model can hold
Decimals == [n \in -99..99 |-> str(n)]

\* the integers whose decimal text is s (at most one)
TextValue(s) == {n \in -99..99 : Decimals[n] = s}

\* the ids a column of texts holds: the texts of non-negative integers
ValidIds(cells) == {n \in 0..99 : Decimals[n] \in cells}

\* the data rows of the log worksheet before row i
RowsBefore(i) == {logTable[j] : j \in 2..(i - 1)}

\* the worksheet row the k-th append_row call wrote
RowOf(k) == logTable[nInit + 1 + k]

\* the point value a stored row counts for
PointOf(row) == IF TextValue(row[4]) = {} THEN 0 ELSE CHOOSE n \in TextValue(row[4]) : TRUE

\* sum of the points of the entries of df dated d
RECURSIVE SumOn(_, _)
SumOn(df, d) ==
    IF df = <<>> THEN 0
    ELSE (IF df[1].Date = d THEN df[1].Point ELSE 0) + SumOn(Tail(df), d)

\* sum of the points of all entries of df
RECURSIVE SumAll(_)
SumAll(df) == IF df = <<>> THEN 0 ELSE df[1].Point + SumAll(Tail(df))

\* the recap worksheet read as rows [No, Date, Total]
RecapRows(ws) ==
    [i \in 1..(Len(ws) - 1) |->
        [No    |-> ws[i + 1][1],
         Date  |-> ParseDate(ws[i + 1][2]),
         Total |-> CHOOSE n \in -99..99 : Decimals[n] = ws[i + 1][3]]]

RECURSIVE SumTotals(_)
SumTotals(rows) == IF rows = <<>> THEN 0 ELSE rows[1].Total + SumTotals(Tail(rows))

DatesOf(df) == {df[i].Date : i \in 1..Len(df)}

\* the recap worksheet is the per-date aggregation of df
IsRecapOf(ws, df) ==
    /\ Len(ws) >= 1 /\ ws[1] = RecapHeader
    /\ \A i \in 2..Len(ws) : DateParses(ws[i][2]) /\ TextValue(ws[i][3]) # {}
    /\ LET rows == RecapRows(ws)
       IN  /\ \A d \in DatesOf(df) :
                Cardinality({i \in 1..Len(rows) : rows[i].Date = d}) = 1
           /\ \A i \in 1..Len(rows) :
                rows[i].Date \in DatesOf(df) /\ rows[i].Total = SumOn(df, rows[i].Date)

\* the recap rows are in ascending date order and numbered 1..N
IsOrdered(ws) ==
    LET rows == RecapRows(ws)
    IN  /\ \A i \in 1..Len(rows) : rows[i].No = Decimals[i]
        /\ \A i \in 1..(Len(rows) - 1) : DateLess(rows[i].Date, rows[i + 1].Date)

-----------------------------------------------------------------------------
(* Properties of the functions *)

\* C1: every row add_log_entry appends carries id 1 when no text of column No
\* above it is the text of an id, and otherwise 1 + the largest such id; texts
\* that are no ids (words, blanks, signed numbers) count for nothing.
C1_NewIdIsMaxPlusOne ==
    \A k \in 1..Len(submitted) :
        LET ids == ValidIds({r[1] : r \in RowsBefore(nInit + 1 + k)})
        IN  /\ Len(logTable) >= nInit + 1 + k
            /\ IF ids = {} THEN RowOf(k)[1] = Decimals[1]
               ELSE \E m \in ids : (\A v \in ids : v <= m) /\ RowOf(k)[1] = Decimals[m + 1]

\* C1 witness: a row was appended under a column holding an id above 1 and a
\* text that is no id.
C1_Witness ==
    /\ lastCall.op = "append"
    /\ \E k \in 1..Len(submitted) :
        LET cells == {r[1] : r \in RowsBefore(nInit + 1 + k)}
        IN  /\ \E n \in ValidIds(cells) : n > 1
            /\ \E c \in cells : ValidIds({c}) = {}

C4_EmptyLogNoWrite ==
    (lastCall.op = "recap" /\ df_log[1] = <<>>) => recapTable = lastCall.recapBefore

\* C4 witness: update_recap ran on an empty log over a worksheet that held rows.
C4_Witness ==
    lastCall.op = "recap" /\ df_log[1] = <<>> /\ Len(lastCall.recapBefore) > 1

\* C6: an entry appended by add_log_entry and read back by load_data has the
\* activity, points and approval it was appended with, and the same calendar date.
C6_RoundTrip ==
    (/\ lastCall.op = "load"
     /\ \A j \in 2..(nInit + 1) : DateParses(logTable[j][2])) =>
        /\ ~ui[1].error
        /\ Len(df_log[1]) = nInit + Len(submitted)
        /\ \A k \in 1..Len(submitted) :
            LET e == df_log[1][nInit + k]
            IN  /\ e.Date = submitted[k].date
                /\ e.Activity = submitted[k].activity
                /\ e.Point = submitted[k].point
                /\ e.Approval = submitted[k].approval

\* C6 witness: an appended entry was read back.
C6_Witness ==
    lastCall.op = "load" /\ Len(submitted) >= 1 /\ Len(df_log[1]) > Len(submitted)

\* C7: load_data reads a row whose point text is no number as 0 points: the
\* load does not fail, no row is lost and every other row keeps its points.
C7_MalformedPointIsZero ==
    (/\ lastCall.op = "load"
     /\ \A j \in 2..Len(logTable) : DateParses(logTable[j][2])) =>
        /\ ~ui[1].error
        /\ Len(df_log[1]) = Len(logTable) - 1
        /\ \A i \in 1..Len(df_log[1]) : df_log[1][i].Point = PointOf(logTable[i + 1])

\* C7 witness: a log with a malformed point text and a numeric one was loaded.
C7_Witness ==
    /\ lastCall.op = "load"
    /\ ~ui[1].error
    /\ \E i, j \in 1..Len(df_log[1]) :
        /\ logTable[i + 1][4] = <<"a", "b", "c">> /\ df_log[1][i].Point = 0
        /\ df_log[1][j].Point = 5

\* C9: the rows update_recap writes are in strictly ascending date order,
\* whatever the order of the log, and the i-th row is numbered i.
C9_RecapOrdered ==
    (lastCall.op = "recap" /\ df_log[1] # <<>>) =>
        /\ IsOrdered(recapTable)
        /\ Len(recapTable) - 1 = Cardinality(DatesOf(df_log[1]))

\* C9 witness: update_recap ran on a log whose entries are not in date order.
C9_Witness ==
    /\ lastCall.op = "recap"
    /\ Len(recapTable) > 2
    /\ \E i \in 1..(Len(df_log[1]) - 1) : DateLess(df_log[1][i + 1].Date, df_log[1][i].Date)

-----------------------------------------------------------------------------
(* Properties of the application *)

\* the stored log as its entries count: the date and the points of each row
StoredEntries ==
    [i \in 1..(Len(logTable) - 1) |->
        [Date |-> ParseDate(logTable[i + 1][2]), Point |-> PointOf(logTable[i + 1])]]

\* the points the catalog worksheet gives an activity
CatalogPoints(a) ==
    UNION {TextValue(listTable[i][2]) : i \in {j \in 2..Len(listTable) : listTable[j][1] = a}}

\* C3: when a submission of a single session has run to its end, the log
\* worksheet holds one row more than before, that row carries the id of the
\* max + 1 rule, the date, activity and approval picked and the catalog's points
\* of the activity, and the RecapPoint worksheet is the per-date aggregation of
\* the whole stored log, the new entry included.
C3_SubmitStoresEntryAndRecap ==
    \A s \in DOMAIN pc :
        pc[s] = "saved" =>
            LET n   == Len(logTable)
                row == logTable[n]
                ids == ValidIds({r[1] : r \in RowsBefore(n)})
            IN  /\ n = readLen[s] + 1
                /\ n = nInit + 1 + Len(submitted)
                /\ IF ids = {} THEN row[1] = Decimals[1]
                   ELSE \E m \in ids : (\A v \in ids : v <= m) /\ row[1] = Decimals[m + 1]
                /\ DateParses(row[2]) /\ ParseDate(row[2]) = sel[s].date
                /\ row[3] = sel[s].activity
                /\ TextValue(row[4]) # {} /\ TextValue(row[4]) = CatalogPoints(sel[s].activity)
                /\ row[5] = sel[s].approval
                /\ IsRecapOf(recapTable, StoredEntries)
                /\ IsOrdered(recapTable)
                /\ Len(recapTable) - 1 = Cardinality(DatesOf(StoredEntries))

\* C3 witness: Reading (5 points) submitted on 2024-01-01 over an empty log
\* left one entry with id 1 and one recap row {1, 2024-01-01, 5}.
C3_Witness ==
    /\ pc[1] = "saved"
    /\ logTable = <<LogHeader, <<<<"1">>, TextJan1, "Reading", <<"5">>, "Good">>>>
    /\ recapTable = <<RecapHeader, <<<<"1">>, TextJan1, <<"5">>>>>>

\* C5: the log worksheet is append-only: a step keeps every row in place,
\* adds at most one row, at the end, and only the append of add_log_entry
\* changes the worksheet (a load and a recap recomputation never do).
C5_LogAppendOnly ==
    [][/\ Len(logTable') >= Len(logTable)
       /\ Len(logTable') <= Len(logTable) + 1
       /\ SubSeq(logTable', 1, Len(logTable)) = logTable
       /\ (logTable' # logTable => \E s \in DOMAIN pc : pc[s] = "submit_append")]_vars

\* C5 witness: a log that held rows before has been loaded, appended to twice
\* and recapped.
C5_Witness ==
    pc[1] = "saved" /\ nInit >= 1 /\ Len(submitted) >= 2 /\ Len(logTable) = nInit + 3

\* C8: no remote failure leaves a script run by an exception nothing caught.
C8_EveryFailureCaught ==
    \A s \in DOMAIN pc : ~ui[s].uncaught

\* C10: two submissions of different sessions that both read column No before
\* either appended carry the same id, and two submissions of one session
\* never do.
C10_RaceGivesEqualIds ==
    \A j, k \in 1..Len(submitted) :
        j < k =>
            /\ (submitted[j].by # submitted[k].by
                    /\ submitted[j].readLen = submitted[k].readLen)
                => RowOf(j)[1] = RowOf(k)[1]
            /\ submitted[j].by = submitted[k].by => RowOf(j)[1] # RowOf(k)[1]

\* C10 witness: the log holds two rows of different sessions with one id.
C10_Witness ==
    \E j, k \in 1..Len(submitted) :
        /\ submitted[j].by # submitted[k].by
        /\ submitted[j].readLen = submitted[k].readLen
        /\ RowOf(j)[1] = RowOf(k)[1]

=============================================================================
